---- MODULE Spec2Model ----
(***************************************************************************)
(* A model of the wires WebDriver bridge: the path router of               *)
(* src/src/messagebuilder.rs and the error model and value codecs of       *)
(* src/src/common.rs.                                                      *)
(*                                                                         *)
(* Rust strings are sequences of one-character strings, so that split,     *)
(* starts_with, ends_with, slicing and pop are computed as the code        *)
(* computes them.  A regex source text is a sequence of items: a character *)
(* or a named group (?P<name>[^/]+), which the code emits as one piece.    *)
(***************************************************************************)
EXTENDS Integers, Sequences, FiniteSets, TLC

VARIABLES http_matchers, panicked, flows, op, arg, ret

vars == <<http_matchers, panicked, flows, op, arg, ret>>

(***************************************************************************)
(* Bounds of the model.                                                    *)
(***************************************************************************)
MaxRoutes == 2
NumFlows == 2
MaxArrayLen == 1

(***************************************************************************)
(* Strings used by the router.                                             *)
(***************************************************************************)
\* "/session"
P_session == <<"/", "s", "e", "s", "s", "i", "o", "n">>
\* "/session/{sessionId}/url"
P_session_url == <<"/", "s", "e", "s", "s", "i", "o", "n", "/", "{", "s", "e", "s", "s", "i", "o", "n", "I", "d", "}", "/", "u", "r", "l">>
\* "/session/{sessionId}/url.": a literal segment holding a regex metacharacter
P_session_url_dot == <<"/", "s", "e", "s", "s", "i", "o", "n", "/", "{", "s", "e", "s", "s", "i", "o", "n", "I", "d", "}", "/", "u", "r", "l", ".">>
\* "/session/{sessionId": the closing brace is missing (last segment)
P_open_last == <<"/", "s", "e", "s", "s", "i", "o", "n", "/", "{", "s", "e", "s", "s", "i", "o", "n", "I", "d">>
\* "/{sessionId/url": the closing brace is missing (inner segment)
P_open_inner == <<"/", "{", "s", "e", "s", "s", "i", "o", "n", "I", "d", "/", "u", "r", "l">>

\* "sessionId"
N_sessionId == <<"s", "e", "s", "s", "i", "o", "n", "I", "d">>
\* "abc-123"
S_abc123 == <<"a", "b", "c", "-", "1", "2", "3">>

\* "/session/abc-123/url"
U_url == <<"/", "s", "e", "s", "s", "i", "o", "n", "/", "a", "b", "c", "-", "1", "2", "3", "/", "u", "r", "l">>
\* "/session/abc-123/title"
U_title == <<"/", "s", "e", "s", "s", "i", "o", "n", "/", "a", "b", "c", "-", "1", "2", "3", "/", "t", "i", "t", "l", "e">>
\* "/session/abc-123/url/"
U_url_slash == <<"/", "s", "e", "s", "s", "i", "o", "n", "/", "a", "b", "c", "-", "1", "2", "3", "/", "u", "r", "l", "/">>
\* "/session//url"
U_empty_id == <<"/", "s", "e", "s", "s", "i", "o", "n", "/", "/", "u", "r", "l">>
\* "/v1/session/abc-123/url"
U_prefixed == <<"/", "v", "1", "/", "s", "e", "s", "s", "i", "o", "n", "/", "a", "b", "c", "-", "1", "2", "3", "/", "u", "r", "l">>
\* "/session/abc-123/url/x"
U_suffixed == <<"/", "s", "e", "s", "s", "i", "o", "n", "/", "a", "b", "c", "-", "1", "2", "3", "/", "u", "r", "l", "/", "x">>

\* hyper's Method values used for requests, and those used for routes
Methods == {"Get", "Post", "Put"}
MatchType == {"MatchNewSession", "MatchGet", "MatchGetCurrentUrl"}

Paths == {P_session, U_url, U_title, U_url_slash, U_empty_id, U_prefixed, U_suffixed}
Bodies == {"{}", "not-json"}

\* the registrations tried: those of get_builder, a second route on a registered
\* verb and path, a route with a '.' in a literal segment, and two broken ones
Routes ==
    { <<"Post", P_session, "MatchNewSession">>,
      <<"Post", P_session_url, "MatchGet">>,
      <<"Get", P_session_url, "MatchGetCurrentUrl">>,
      <<"Get", P_session_url, "MatchGet">>,
      <<"Get", P_session_url_dot, "MatchNewSession">>,
      <<"Get", P_open_last, "MatchGetCurrentUrl">>,
      <<"Post", P_open_inner, "MatchGet">> }

(***************************************************************************)
(* str::split('/'), starts_with, ends_with                                 *)
(***************************************************************************)
RECURSIVE split(_, _)
split(s, sep) ==
    IF \E k \in 1..Len(s) : s[k] = sep
    THEN LET k == CHOOSE k \in 1..Len(s) :
                     s[k] = sep /\ \A m \in 1..(k - 1) : s[m] # sep
         IN <<SubSeq(s, 1, k - 1)>> \o split(SubSeq(s, k + 1, Len(s)), sep)
    ELSE <<s>>

starts_with(s, c) == Len(s) >= 1 /\ s[1] = c

ends_with(s, c) == Len(s) >= 1 /\ s[Len(s)] = c

(***************************************************************************)
(* Regex source items and the compiled program.                            *)
(***************************************************************************)
Chr(c) == [k |-> "chr", c |-> c, name |-> <<>>]

Grp(name) == [k |-> "grp", c |-> "", name |-> name]

RECURSIVE Chars(_)
Chars(s) == IF s = <<>> THEN <<>> ELSE <<Chr(Head(s))>> \o Chars(Tail(s))

NoMatch == [ok |-> FALSE, caps |-> <<>>]

\* Regex::new: '^' and '$' are anchors, '.' is any character, a named group must
\* have a non-empty name that no other group has; anything else is a literal.
Regex_new(rv) ==
    LET names == {i \in 1..Len(rv) : rv[i].k = "grp"}
        bad == \/ \E i \in names : rv[i].name = <<>>
               \/ \E i, j \in names : i # j /\ rv[i].name = rv[j].name
        tok(it) == CASE it.k = "grp" -> [t |-> "cap", c |-> "", name |-> it.name]
                     [] it.k = "chr" /\ it.c = "^" -> [t |-> "bol", c |-> "", name |-> <<>>]
                     [] it.k = "chr" /\ it.c = "$" -> [t |-> "eol", c |-> "", name |-> <<>>]
                     [] it.k = "chr" /\ it.c = "." -> [t |-> "any", c |-> "", name |-> <<>>]
                     [] OTHER -> [t |-> "lit", c |-> it.c, name |-> <<>>]
    IN [err |-> bad, prog |-> IF bad THEN <<>> ELSE [i \in 1..Len(rv) |-> tok(rv[i])]]

\* the longest run of characters other than '/' starting at text[j]
RECURSIVE Run(_, _)
Run(text, j) == IF j <= Len(text) /\ text[j] # "/" THEN 1 + Run(text, j + 1) ELSE 0

\* a backtracking match of prog[i..] against text[j..]; [^/]+ is greedy
RECURSIVE MatchFrom(_, _, _, _), TryCap(_, _, _, _, _)
MatchFrom(prog, i, text, j) ==
    IF i > Len(prog) THEN [ok |-> TRUE, caps |-> <<>>]
    ELSE LET tk == prog[i] IN
         CASE tk.t = "bol" -> IF j = 1 THEN MatchFrom(prog, i + 1, text, j) ELSE NoMatch
           [] tk.t = "eol" -> IF j = Len(text) + 1 THEN MatchFrom(prog, i + 1, text, j)
                              ELSE NoMatch
           [] tk.t = "lit" -> IF j <= Len(text) /\ text[j] = tk.c
                              THEN MatchFrom(prog, i + 1, text, j + 1) ELSE NoMatch
           [] tk.t = "any" -> IF j <= Len(text) /\ text[j] # "\n"
                              THEN MatchFrom(prog, i + 1, text, j + 1) ELSE NoMatch
           [] tk.t = "cap" -> TryCap(prog, i, text, j, Run(text, j))

TryCap(prog, i, text, j, n) ==
    IF n < 1 THEN NoMatch
    ELSE LET r == MatchFrom(prog, i + 1, text, j + n) IN
         IF r.ok
         THEN [ok |-> TRUE, caps |-> (prog[i].name :> SubSeq(text, j, j + n - 1)) @@ r.caps]
         ELSE TryCap(prog, i, text, j, n - 1)

\* Regex::captures: the leftmost match anywhere in the text
RECURSIVE SearchFrom(_, _, _)
SearchFrom(prog, text, start) ==
    IF start > Len(text) + 1 THEN NoMatch
    ELSE LET r == MatchFrom(prog, 1, text, start) IN
         IF r.ok THEN r ELSE SearchFrom(prog, text, start + 1)

Regex_captures(prog, text) == SearchFrom(prog, text, 1)

(***************************************************************************)
(* RequestMatcher                                                          *)
(***************************************************************************)
Panic == [panic |-> TRUE, re |-> <<>>]

\* compile_components without the check of the closing brace
RECURSIVE compile_components_unchecked(_)
compile_components_unchecked(components) ==
    IF components = <<>> THEN [panic |-> FALSE, rv |-> <<>>]
    ELSE LET component == Head(components)
             rest == compile_components_unchecked(Tail(components))
         IN IF starts_with(component, "{")
            THEN [panic |-> FALSE,
                  rv |-> <<Grp(SubSeq(component, 2, Len(component) - 1)), Chr("/")>>
                         \o rest.rv]
            ELSE [panic |-> FALSE, rv |-> Chars(component) \o <<Chr("/")>> \o rest.rv]

\* the loop of compile_path over the components: the text pushed to rv, or a panic
RECURSIVE compile_components(_)
compile_components(components) ==
    IF components = <<>> THEN [panic |-> FALSE, rv |-> <<>>]
    ELSE LET component == Head(components)
             rest == compile_components(Tail(components))
         IN IF starts_with(component, "{")
            THEN IF ~ends_with(component, "}")
                 THEN [panic |-> TRUE, rv |-> <<>>]
                 ELSE IF rest.panic THEN rest
                      ELSE [panic |-> FALSE,
                            rv |-> <<Grp(SubSeq(component, 2, Len(component) - 1)), Chr("/")>>
                                   \o rest.rv]
            ELSE IF rest.panic THEN rest
                 ELSE [panic |-> FALSE, rv |-> Chars(component) \o <<Chr("/")>> \o rest.rv]

\* String::pop
pop(rv) == IF rv = <<>> THEN rv ELSE SubSeq(rv, 1, Len(rv) - 1)

compile_path(path) ==
    LET pushed == compile_components(split(path, "/")) IN
    IF pushed.panic THEN Panic
    ELSE LET rv == <<Chr("^")>> \o pop(pushed.rv) \o <<Chr("$")>>
             re == Regex_new(rv)
         IN IF re.err THEN Panic ELSE [panic |-> FALSE, re |-> re.prog]

RequestMatcher_new(method, path, match_type) ==
    LET path_regexp == compile_path(path) IN
    IF path_regexp.panic THEN [panic |-> TRUE, matcher |-> <<>>]
    ELSE [panic |-> FALSE,
          matcher |-> [method |-> method, path_regexp |-> path_regexp.re,
                       match_type |-> match_type]]

get_match(matcher, method, path) ==
    IF method = matcher.method THEN Regex_captures(matcher.path_regexp, path)
    ELSE NoMatch

(***************************************************************************)
(* MessageBuilder                                                          *)
(***************************************************************************)
MessageBuilder_new == <<>>

None == [tag |-> "None", v |-> <<>>]

Some(x) == [tag |-> "Some", v |-> x]

\* one turn of the loop of from_http, on the i-th registered matcher
from_http_visit(matchers, i, method, path, body) ==
    LET match_method == matchers[i][1]
        matcher == matchers[i][2]
    IN IF method = match_method
       THEN LET captures == get_match(matcher, method, path) IN
            IF captures.ok
            THEN Some([match_type |-> matcher.match_type, captures |-> captures.caps,
                       body |-> body])
            ELSE None
       ELSE None

\* from_http_from visiting the matchers from the last one
RECURSIVE from_http_last_wins(_, _, _, _, _)
from_http_last_wins(matchers, i, method, path, body) ==
    IF i > Len(matchers) THEN None
    ELSE LET later == from_http_last_wins(matchers, i + 1, method, path, body) IN
         IF later.tag = "Some" THEN later
         ELSE from_http_visit(matchers, i, method, path, body)

RECURSIVE from_http_from(_, _, _, _, _)
from_http_from(matchers, i, method, path, body) ==
    IF i > Len(matchers) THEN None
    ELSE LET r == from_http_visit(matchers, i, method, path, body) IN
         IF r.tag = "Some" THEN r ELSE from_http_from(matchers, i + 1, method, path, body)

from_http(matchers, method, path, body) == from_http_from(matchers, 1, method, path, body)

\* add: the matcher is compiled first; a panic leaves before the push
MessageBuilder_add(matchers, method, path, match_type) ==
    LET http_matcher == RequestMatcher_new(method, path, match_type) IN
    IF http_matcher.panic THEN [panic |-> TRUE, http_matchers |-> matchers]
    ELSE [panic |-> FALSE,
          http_matchers |-> Append(matchers, <<method, http_matcher.matcher>>)]

get_builder_matchers ==
    << <<"Post", P_session, "MatchNewSession">>,
       <<"Post", P_session_url, "MatchGet">>,
       <<"Get", P_session_url, "MatchGetCurrentUrl">> >>

RECURSIVE add_all(_, _)
add_all(builder, routes) ==
    IF routes = <<>> THEN builder
    ELSE LET r == Head(routes)
         IN add_all(MessageBuilder_add(builder, r[1], r[2], r[3]).http_matchers, Tail(routes))

get_builder == add_all(MessageBuilder_new, get_builder_matchers)

(***************************************************************************)
(* The router, used by one flow: routes are registered and requests are    *)
(* matched in any order.                                                   *)
(***************************************************************************)
IdleFlows == [f \in 1..NumFlows |-> [pc |-> "idle", method |-> "Get", path |-> <<>>,
                                     body |-> "", i |-> 0, result |-> None]]

RouterInit ==
    /\ http_matchers = MessageBuilder_new
    /\ panicked = FALSE
    /\ flows = IdleFlows
    /\ op = "new"
    /\ arg = <<>>
    /\ ret = <<>>

Add(method, path, match_type) ==
    /\ ~panicked
    /\ Len(http_matchers) < MaxRoutes
    /\ LET r == MessageBuilder_add(http_matchers, method, path, match_type) IN
       /\ http_matchers' = r.http_matchers
       /\ panicked' = r.panic
       /\ op' = "add"
       /\ arg' = [method |-> method, path |-> path, match_type |-> match_type]
       /\ ret' = [panic |-> r.panic]
    /\ UNCHANGED flows

GetBuilder ==
    /\ ~panicked
    /\ op = "new"
    /\ http_matchers' = get_builder
    /\ op' = "get_builder"
    /\ arg' = <<>>
    /\ ret' = <<>>
    /\ UNCHANGED <<panicked, flows>>

FromHttp(method, path, body) ==
    /\ ~panicked
    /\ op' = "from_http"
    /\ arg' = [method |-> method, path |-> path, body |-> body]
    /\ ret' = from_http(http_matchers, method, path, body)
    /\ UNCHANGED <<http_matchers, panicked, flows>>

RouterNext ==
    \/ \E r \in Routes : Add(r[1], r[2], r[3])
    \/ GetBuilder
    \/ \E method \in Methods, path \in Paths, body \in Bodies : FromHttp(method, path, body)

SpecRouter == RouterInit /\ [][RouterNext]_vars

(***************************************************************************)
(* serialize::json::Json, as the values the codecs are applied to.  The    *)
(* JSON parser gives U64 to every non-negative integer, I64 to the         *)
(* negative ones and F64 to numbers with a fraction or an exponent.        *)
(***************************************************************************)
U16_MAX == 65535

ELEMENT_KEY == "element-6066-11e4-a52e-4f735466cecf"

JNull == [tag |-> "Null", v |-> 0]

JBoolean(b) == [tag |-> "Boolean", v |-> b]

JU64(n) == [tag |-> "U64", v |-> n]

JI64(n) == [tag |-> "I64", v |-> n]

JF64(x) == [tag |-> "F64", v |-> x]

JString(x) == [tag |-> "String", v |-> x]

JArray(xs) == [tag |-> "Array", v |-> xs]

JObject(data) == [tag |-> "Object", v |-> data]

U64Samples == {0, 7, U16_MAX, U16_MAX + 1, U16_MAX + 8}
I64Samples == {-1, -(U16_MAX + 1)}
F64Samples == {"1.5"}
Ids == {"", "e1"}
StrategyNames == {"css selector", "link text", "partial link text", "xpath", "XPath"}
JsonStrings == Ids \cup StrategyNames
ObjectKeys == {ELEMENT_KEY, "ELEMENT"}

JsonScalars ==
    {JNull} \cup {JBoolean(b) : b \in BOOLEAN} \cup {JU64(n) : n \in U64Samples}
    \cup {JI64(n) : n \in I64Samples} \cup {JF64(x) : x \in F64Samples}
    \cup {JString(x) : x \in JsonStrings}

ArrayElements == {JNull, JU64(7), JString("e1")}

RECURSIVE SeqsUpTo(_, _)
SeqsUpTo(S, n) ==
    IF n = 0 THEN {<<>>}
    ELSE LET shorter == SeqsUpTo(S, n - 1) IN
         shorter \cup {Append(xs, x) : xs \in {ys \in shorter : Len(ys) = n - 1}, x \in S}

JsonArrays == {JArray(xs) : xs \in SeqsUpTo(ArrayElements, MaxArrayLen)}

JsonObjects ==
    UNION {{JObject(data) : data \in [keys -> JsonScalars]} : keys \in SUBSET ObjectKeys}

JsonValues == JsonScalars \cup JsonArrays \cup JsonObjects

\* Json::is_null, as_object, as_string, Object::get
is_null(j) == j.tag = "Null"

as_object(j) == IF j.tag = "Object" THEN Some(j.v) ELSE None

as_string(j) == IF j.tag = "String" THEN Some(j.v) ELSE None

get(data, key) == IF key \in DOMAIN data THEN Some(data[key]) ELSE None

Ok(x) == [tag |-> "Ok", v |-> x]

Err(e) == [tag |-> "Err", v |-> e]

(***************************************************************************)
(* ErrorStatus, WebDriverError                                             *)
(***************************************************************************)
ErrorStatus ==
    {"ElementNotSelectable", "ElementNotVisible", "InvalidArgument", "InvalidCookieDomain",
     "InvalidElementCoordinates", "InvalidElementState", "InvalidSelector",
     "InvalidSessionId", "JavascriptError", "MoveTargetOutOfBounds", "NoSuchAlert",
     "NoSuchElement", "NoSuchFrame", "NoSuchWindow", "ScriptTimeout", "SessionNotCreated",
     "StaleElementReference", "Timeout", "UnableToSetCookie", "UnexpectedAlertOpen",
     "UnknownError", "UnknownPath", "UnknownMethod", "UnsupportedOperation"}

Messages == {"", "no such element: e1"}

WebDriverError_new(status, message) == [status |-> status, message |-> message]

WebDriverErrors == {WebDriverError_new(s, m) : s \in ErrorStatus, m \in Messages}

status_code(self) ==
    CASE self.status = "ElementNotSelectable" -> "element not selectable"
      [] self.status = "ElementNotVisible" -> "element not visible"
      [] self.status = "InvalidArgument" -> "invalid argument"
      [] self.status = "InvalidCookieDomain" -> "invalid cookie domain"
      [] self.status = "InvalidElementCoordinates" -> "invalid element coordinates"
      [] self.status = "InvalidElementState" -> "invalid element state"
      [] self.status = "InvalidSelector" -> "invalid selector"
      [] self.status = "InvalidSessionId" -> "invalid session id"
      [] self.status = "JavascriptError" -> "javascript error"
      [] self.status = "MoveTargetOutOfBounds" -> "move target out of bounds"
      [] self.status = "NoSuchAlert" -> "no such alert"
      [] self.status = "NoSuchElement" -> "no such element"
      [] self.status = "NoSuchFrame" -> "no such frame"
      [] self.status = "NoSuchWindow" -> "no such window"
      [] self.status = "ScriptTimeout" -> "script timeout"
      [] self.status = "SessionNotCreated" -> "session not created"
      [] self.status = "StaleElementReference" -> "stale element reference"
      [] self.status = "Timeout" -> "timeout"
      [] self.status = "UnableToSetCookie" -> "unable to set cookie"
      [] self.status = "UnexpectedAlertOpen" -> "unexpected alert open"
      [] self.status = "UnknownError" -> "unknown error"
      [] self.status = "UnknownPath" -> "unknown command"
      [] self.status = "UnknownMethod" -> "unknown command"
      [] self.status = "UnsupportedOperation" -> "unsupported operation"

\* http_status with the codes of the two routing errors exchanged
http_status_exchanged(self) ==
    CASE self.status = "UnknownPath" -> 405
      [] self.status = "UnknownMethod" -> 404
      [] OTHER -> 500

http_status(self) ==
    CASE self.status = "UnknownPath" -> 404
      [] self.status = "UnknownMethod" -> 405
      [] OTHER -> 500

\* TreeMap::insert: the value of an existing key is replaced
insert(data, key, value) == [k \in DOMAIN data \cup {key} |-> IF k = key THEN value ELSE data[k]]

TreeMap_new == [k \in {} |-> JNull]

\* to_json inserting the message under the key "message"
WebDriverError_to_json_message_key(self) ==
    LET data0 == insert(TreeMap_new, "status", JString(status_code(self)))
        data1 == insert(data0, "message", JString(self.message))
    IN JObject(data1)

WebDriverError_to_json(self) ==
    LET data0 == insert(TreeMap_new, "status", JString(status_code(self)))
        data1 == insert(data0, "error", JString(self.message))
    IN JObject(data1)

(***************************************************************************)
(* WebElement                                                              *)
(***************************************************************************)
WebElement_new(id) == [id |-> id]

\* from_json without the test that the value of the key is a string
WebElement_from_json_any_value(data) ==
    LET object == as_object(data) IN
    IF object.tag = "None"
    THEN Err(WebDriverError_new("InvalidArgument", "Could not convert webelement to object"))
    ELSE LET key_value == get(object.v, ELEMENT_KEY) IN
         IF key_value.tag = "None"
         THEN Err(WebDriverError_new("InvalidArgument", "Could not find webelement key"))
         ELSE Ok(WebElement_new(key_value.v.v))

\* the three try_opt! steps, in the order of both forms of the body
WebElement_from_json(data) ==
    LET object == as_object(data) IN
    IF object.tag = "None"
    THEN Err(WebDriverError_new("InvalidArgument", "Could not convert webelement to object"))
    ELSE LET key_value == get(object.v, ELEMENT_KEY) IN
         IF key_value.tag = "None"
         THEN Err(WebDriverError_new("InvalidArgument", "Could not find webelement key"))
         ELSE LET key == as_string(key_value.v) IN
              IF key.tag = "None"
              THEN Err(WebDriverError_new("InvalidArgument",
                                          "Could not convert web element to string"))
              ELSE Ok(WebElement_new(key.v))

WebElement_to_json(self) == JObject(insert(TreeMap_new, ELEMENT_KEY, JString(self.id)))

WebElements == {WebElement_new(id) : id \in Ids}

(***************************************************************************)
(* FrameId                                                                 *)
(***************************************************************************)
Short(x) == [tag |-> "Short", v |-> x]

Element(x) == [tag |-> "Element", v |-> x]

FrameId_Null == [tag |-> "Null", v |-> 0]

\* x as u16
as_u16(x) == x % (U16_MAX + 1)

\* x.to_u16()
to_u16(x) == IF 0 <= x /\ x <= U16_MAX THEN Some(x) ELSE None

frame_id_out_of_range == Err(WebDriverError_new("NoSuchFrame", "frame id out of range"))

\* the cast without the comparison that guards it
short_by_cast_unguarded(x) == Ok(Short(as_u16(x)))

\* the U64 arm, first form: compare with u16::MAX, then cast
short_by_cast(x) == IF x <= U16_MAX THEN Ok(Short(as_u16(x))) ELSE frame_id_out_of_range

\* the U64 arm, second form: to_u16
short_by_to_u16(x) ==
    LET y == to_u16(x) IN IF y.tag = "Some" THEN Ok(Short(y.v)) ELSE frame_id_out_of_range

\* the body of the U64 arm holds both forms; form says which one runs
FrameId_from_json(data, form) ==
    CASE data.tag = "U64" -> IF form = "cast" THEN short_by_cast(data.v)
                             ELSE short_by_to_u16(data.v)
      [] data.tag = "Null" -> Ok(FrameId_Null)
      [] data.tag = "String" -> Ok(Element(WebElement_new(data.v)))
      [] OTHER -> Err(WebDriverError_new("NoSuchFrame", "frame id has unexpected type"))

FrameId_to_json(self) ==
    CASE self.tag = "Short" -> JU64(self.v)
      [] self.tag = "Element" -> JString(self.v.id)
      [] self.tag = "Null" -> JNull

Forms == {"cast", "to_u16"}
U16Samples == {n \in U64Samples : n <= U16_MAX}
FrameIds == {Short(n) : n \in U16Samples} \cup {Element(e) : e \in WebElements}
            \cup {FrameId_Null}

(***************************************************************************)
(* LocatorStrategy                                                         *)
(***************************************************************************)
LocatorStrategy == {"CSSSelector", "LinkText", "PartialLinkText", "XPath"}

LocatorStrategy_from_json(body) ==
    LET name == as_string(body) IN
    IF name.tag = "None"
    THEN Err(WebDriverError_new("InvalidArgument", "Cound not convert strategy to string"))
    ELSE CASE name.v = "css selector" -> Ok("CSSSelector")
           [] name.v = "link text" -> Ok("LinkText")
           [] name.v = "partial link text" -> Ok("PartialLinkText")
           [] name.v = "xpath" -> Ok("XPath")
           [] OTHER -> Err(WebDriverError_new("InvalidArgument", "Unknown locator strategy"))

LocatorStrategy_to_json(self) ==
    JString(CASE self = "CSSSelector" -> "css selector"
              [] self = "LinkText" -> "link text"
              [] self = "PartialLinkText" -> "partial link text"
              [] self = "XPath" -> "xpath")

(***************************************************************************)
(* Nullable<T>, for T one of the value types above.  The decoder handed to *)
(* from_json is T::from_json, and to_json uses T's to_json.                *)
(***************************************************************************)
ValueTypes == {"WebElement", "FrameId", "LocatorStrategy"}

ValuesOf(T) ==
    CASE T = "WebElement" -> WebElements
      [] T = "FrameId" -> FrameIds
      [] T = "LocatorStrategy" -> LocatorStrategy

\* T::from_json and T's to_json
T_from_json(T, form, j) ==
    CASE T = "WebElement" -> WebElement_from_json(j)
      [] T = "FrameId" -> FrameId_from_json(j, form)
      [] T = "LocatorStrategy" -> LocatorStrategy_from_json(j)

T_to_json(T, x) ==
    CASE T = "WebElement" -> WebElement_to_json(x)
      [] T = "FrameId" -> FrameId_to_json(x)
      [] T = "LocatorStrategy" -> LocatorStrategy_to_json(x)

Value(x) == [tag |-> "Value", v |-> x]

Nullable_Null == [tag |-> "Null", v |-> 0]

Nullables(T) == {Nullable_Null} \cup {Value(x) : x \in ValuesOf(T)}

Nullable_is_null(self) == self.tag = "Null"

Nullable_is_value(self) == self.tag = "Value"

\* from_json that hands every node, null or not, to the decoder of T
Nullable_from_json_no_null(value, T, form) ==
    LET r == T_from_json(T, form, value) IN IF r.tag = "Err" THEN r ELSE Ok(Value(r.v))

Nullable_from_json(value, T, form) ==
    IF is_null(value) THEN Ok(Nullable_Null)
    ELSE LET r == T_from_json(T, form, value) IN
         IF r.tag = "Err" THEN r ELSE Ok(Value(r.v))

Nullable_to_json(self, T) ==
    IF self.tag = "Value" THEN T_to_json(T, self.v) ELSE JNull

(***************************************************************************)
(* The error model and the codecs, one call at a time.                     *)
(***************************************************************************)
CodecInit ==
    /\ http_matchers = MessageBuilder_new
    /\ panicked = FALSE
    /\ flows = IdleFlows
    /\ op = "new"
    /\ arg = <<>>
    /\ ret = <<>>

\* the state between two calls: no call is in progress and no result is held
Idle == op = "new"

StatusCode(e) ==
    /\ Idle
    /\ op' = "status_code"
    /\ arg' = e
    /\ ret' = status_code(e)
    /\ UNCHANGED <<http_matchers, panicked, flows>>

HttpStatus(e) ==
    /\ Idle
    /\ op' = "http_status"
    /\ arg' = e
    /\ ret' = http_status(e)
    /\ UNCHANGED <<http_matchers, panicked, flows>>

ErrorToJson(e) ==
    /\ Idle
    /\ op' = "WebDriverError::to_json"
    /\ arg' = e
    /\ ret' = WebDriverError_to_json(e)
    /\ UNCHANGED <<http_matchers, panicked, flows>>

WebElementFromJson(j) ==
    /\ Idle
    /\ op' = "WebElement::from_json"
    /\ arg' = j
    /\ ret' = WebElement_from_json(j)
    /\ UNCHANGED <<http_matchers, panicked, flows>>

WebElementToJson(e) ==
    /\ Idle
    /\ op' = "WebElement::to_json"
    /\ arg' = e
    /\ ret' = WebElement_to_json(e)
    /\ UNCHANGED <<http_matchers, panicked, flows>>

FrameIdFromJson(j, form) ==
    /\ Idle
    /\ op' = "FrameId::from_json"
    /\ arg' = [data |-> j, form |-> form]
    /\ ret' = FrameId_from_json(j, form)
    /\ UNCHANGED <<http_matchers, panicked, flows>>

FrameIdToJson(x) ==
    /\ Idle
    /\ op' = "FrameId::to_json"
    /\ arg' = x
    /\ ret' = FrameId_to_json(x)
    /\ UNCHANGED <<http_matchers, panicked, flows>>

LocatorStrategyFromJson(j) ==
    /\ Idle
    /\ op' = "LocatorStrategy::from_json"
    /\ arg' = j
    /\ ret' = LocatorStrategy_from_json(j)
    /\ UNCHANGED <<http_matchers, panicked, flows>>

LocatorStrategyToJson(x) ==
    /\ Idle
    /\ op' = "LocatorStrategy::to_json"
    /\ arg' = x
    /\ ret' = LocatorStrategy_to_json(x)
    /\ UNCHANGED <<http_matchers, panicked, flows>>

NullableFromJson(T, form, j) ==
    /\ Idle
    /\ op' = "Nullable::from_json"
    /\ arg' = [T |-> T, form |-> form, value |-> j]
    /\ ret' = Nullable_from_json(j, T, form)
    /\ UNCHANGED <<http_matchers, panicked, flows>>

NullableToJson(T, v) ==
    /\ Idle
    /\ op' = "Nullable::to_json"
    /\ arg' = [T |-> T, self |-> v]
    /\ ret' = Nullable_to_json(v, T)
    /\ UNCHANGED <<http_matchers, panicked, flows>>

\* encode, then decode what was encoded
NullableRoundTrip(T, form, v) ==
    /\ Idle
    /\ op' = "Nullable::round_trip"
    /\ arg' = [T |-> T, form |-> form, self |-> v]
    /\ ret' = Nullable_from_json(Nullable_to_json(v, T), T, form)
    /\ UNCHANGED <<http_matchers, panicked, flows>>

\* the caller is done with the result
Drop ==
    /\ ~Idle
    /\ op' = "new"
    /\ arg' = <<>>
    /\ ret' = <<>>
    /\ UNCHANGED <<http_matchers, panicked, flows>>

CodecNext ==
    \/ \E e \in WebDriverErrors : StatusCode(e)
    \/ \E e \in WebDriverErrors : HttpStatus(e)
    \/ \E e \in WebDriverErrors : ErrorToJson(e)
    \/ \E j \in JsonValues : WebElementFromJson(j)
    \/ \E e \in WebElements : WebElementToJson(e)
    \/ \E j \in JsonValues, form \in Forms : FrameIdFromJson(j, form)
    \/ \E x \in FrameIds : FrameIdToJson(x)
    \/ \E j \in JsonValues : LocatorStrategyFromJson(j)
    \/ \E x \in LocatorStrategy : LocatorStrategyToJson(x)
    \/ \E T \in ValueTypes, form \in Forms, j \in JsonValues : NullableFromJson(T, form, j)
    \/ \E T \in ValueTypes : \E v \in Nullables(T) : NullableToJson(T, v)
    \/ \E T \in ValueTypes, form \in Forms : \E v \in Nullables(T) :
          NullableRoundTrip(T, form, v)
    \/ Drop

SpecCodec == CodecInit /\ [][CodecNext]_vars

(***************************************************************************)
(* Properties of the error model and the codecs                            *)
(***************************************************************************)
\* C3: the wire string of every ErrorStatus is non-empty and no other ErrorStatus
\* has the same wire string.
C3_WireStringsInjective ==
    op = "status_code" =>
        /\ ret # ""
        /\ \A other \in ErrorStatus \ {arg.status} :
              status_code(WebDriverError_new(other, arg.message)) # ret

\* C4: http_status is 404 for UnknownPath, 405 for UnknownMethod and 500 for
\* every other status, whatever the message.
C4_HttpStatus ==
    op = "http_status" =>
        /\ arg.status = "UnknownPath" => ret = 404
        /\ arg.status = "UnknownMethod" => ret = 405
        /\ arg.status \notin {"UnknownPath", "UnknownMethod"} => ret = 500
        /\ \A m \in Messages : http_status(WebDriverError_new(arg.status, m)) = ret

\* a routing error with a message
C4_Witness ==
    /\ op = "http_status"
    /\ arg.status = "UnknownMethod"
    /\ arg.message # ""
    /\ ret = 405

\* C5: to_json of a WebDriverError is an object with the two keys "status" and
\* "error" and no other: the wire string of the status and the message unchanged.
C5_ErrorJsonShape ==
    op = "WebDriverError::to_json" =>
        /\ ret.tag = "Object"
        /\ DOMAIN ret.v = {"status", "error"}
        /\ ret.v["status"] = JString(status_code(arg))
        /\ ret.v["error"] = JString(arg.message)

C5_Witness ==
    /\ op = "WebDriverError::to_json"
    /\ arg.status = "NoSuchElement"
    /\ arg.message = "no such element: e1"
    /\ ret.v["status"] = JString("no such element")

\* C6: decoding the encoding of a Nullable<T> value gives the value back, for Null
\* and for Value(x), for every value type T.
C6_NullableRoundTrip ==
    op = "Nullable::round_trip" => ret = Ok(arg.self)

\* a Value whose inner value is itself encoded as JSON null
EncodesAsNull(T, v) == v.tag = "Value" /\ is_null(T_to_json(T, v.v))

\* C6, as amended: decoding the encoding of a Nullable<T> value gives the value
\* back unless it is a Value whose inner value encodes as JSON null (Value of
\* FrameId::Null), which comes back as Null.
C6_NullableRoundTripButNull ==
    op = "Nullable::round_trip" =>
        IF EncodesAsNull(arg.T, arg.self) THEN ret = Ok(Nullable_Null)
        ELSE ret = Ok(arg.self)

\* Null of Nullable<WebElement> went through the two codecs
C6_Witness ==
    /\ op = "Nullable::round_trip"
    /\ arg.T = "WebElement"
    /\ arg.self = Nullable_Null
    /\ ret = Ok(Nullable_Null)

InvalidArgument(r) == r.tag = "Err" /\ r.v.status = "InvalidArgument"

\* C7: WebElement::from_json succeeds only on an object whose single key is the
\* element key with a string value; every other JSON value, an object with further
\* keys among them, fails with InvalidArgument.
C7_WebElementSingleKey ==
    op = "WebElement::from_json" =>
        IF /\ arg.tag = "Object"
           /\ DOMAIN arg.v = {ELEMENT_KEY}
           /\ arg.v[ELEMENT_KEY].tag = "String"
        THEN ret = Ok(WebElement_new(arg.v[ELEMENT_KEY].v))
        ELSE InvalidArgument(ret)

\* C7, as amended: WebElement::from_json succeeds exactly on an object that has
\* the element key with a string value, whatever other keys it has, and gives the
\* element with that id; every other JSON value fails with InvalidArgument.
C7_WebElementKeyPresent ==
    op = "WebElement::from_json" =>
        IF /\ arg.tag = "Object"
           /\ ELEMENT_KEY \in DOMAIN arg.v
           /\ arg.v[ELEMENT_KEY].tag = "String"
        THEN ret = Ok(WebElement_new(arg.v[ELEMENT_KEY].v))
        ELSE InvalidArgument(ret)

\* an object with the element key and a further key was decoded
C7_Witness ==
    /\ op = "WebElement::from_json"
    /\ arg.tag = "Object"
    /\ DOMAIN arg.v = ObjectKeys
    /\ arg.v[ELEMENT_KEY] = JString("e1")
    /\ ret = Ok(WebElement_new("e1"))

NoSuchFrame(r) == r.tag = "Err" /\ r.v.status = "NoSuchFrame"

Requests ==
    { <<"Get", U_url, "">>, <<"Post", U_url, "{}">>, <<"Put", U_url, "">>,
      <<"Get", U_title, "">>, <<"Post", P_session, "{}">> }

Flows == 1..NumFlows

Max(S) == CHOOSE i \in S : \A j \in S : j <= i

\* one iterator over the matchers for all the calls in progress
cursor_shared(fl, f) == Max({fl[g].i : g \in {g \in Flows : fl[g].pc = "loop"}})

\* the position of the iterator of flow f's call: a local of that call
cursor(fl, f) == fl[f].i

ConcInit ==
    /\ http_matchers = get_builder
    /\ panicked = FALSE
    /\ flows = IdleFlows
    /\ op = "get_builder"
    /\ arg = <<>>
    /\ ret = <<>>

Begin(f, method, path, body) ==
    /\ flows[f].pc = "idle"
    /\ flows' = [flows EXCEPT ![f] = [pc |-> "loop", method |-> method, path |-> path,
                                       body |-> body, i |-> 1, result |-> None]]
    /\ UNCHANGED <<http_matchers, panicked, op, arg, ret>>

Visit(f) ==
    /\ flows[f].pc = "loop"
    /\ cursor(flows, f) <= Len(http_matchers)
    /\ LET i == cursor(flows, f)
           r == from_http_visit(http_matchers, i, flows[f].method, flows[f].path,
                                flows[f].body)
       IN flows' = [flows EXCEPT ![f] = IF r.tag = "Some"
                                        THEN [@ EXCEPT !.pc = "done", !.result = r]
                                        ELSE [@ EXCEPT !.i = i + 1]]
    /\ UNCHANGED <<http_matchers, panicked, op, arg, ret>>

ReturnNone(f) ==
    /\ flows[f].pc = "loop"
    /\ cursor(flows, f) > Len(http_matchers)
    /\ flows' = [flows EXCEPT ![f] = [@ EXCEPT !.pc = "done", !.result = None]]
    /\ UNCHANGED <<http_matchers, panicked, op, arg, ret>>

Discard(f) ==
    /\ flows[f].pc = "done"
    /\ flows' = [flows EXCEPT ![f] = IdleFlows[f]]
    /\ UNCHANGED <<http_matchers, panicked, op, arg, ret>>

ConcNext ==
    \/ \E f \in Flows, r \in Requests : Begin(f, r[1], r[2], r[3])
    \/ \E f \in Flows : Visit(f)
    \/ \E f \in Flows : ReturnNone(f)
    \/ \E f \in Flows : Discard(f)

SpecConc == ConcInit /\ [][ConcNext]_vars

\* C9: while any number of from_http calls interleave, the route table stays the
\* one that was built, and every finished call holds the result that the same call
\* returns when it runs alone on that table.
C9_ReadOnlyRouter ==
    /\ http_matchers = get_builder
    /\ \A f \in Flows :
          flows[f].pc = "done" =>
              flows[f].result = from_http(http_matchers, flows[f].method, flows[f].path,
                                          flows[f].body)

\* one call has finished with a match while another is in the middle of its loop
C9_Witness ==
    \E f, g \in Flows :
        /\ f # g
        /\ flows[f].pc = "done"
        /\ flows[f].result.tag = "Some"
        /\ flows[g].pc = "loop"
        /\ flows[g].i = 2
        /\ from_http(http_matchers, flows[g].method, flows[g].path, flows[g].body).tag = "Some"

(***************************************************************************)
(* Properties of the router                                                *)
(***************************************************************************)
\* the registered matchers with the request's verb whose pattern matches the path
MatchingRoutes(matchers, method, path) ==
    {i \in 1..Len(matchers) :
        /\ matchers[i][1] = method
        /\ matchers[i][2].method = method
        /\ Regex_captures(matchers[i][2].path_regexp, path).ok}

Least(S) == CHOOSE i \in S : \A j \in S : i <= j

\* C1: from_http returns None exactly when no registered matcher has the request's
\* verb and a pattern matching the path, and otherwise the route tag and captures
\* of the earliest-registered such matcher, never those of a later one.
C1_FirstMatchWins ==
    op = "from_http" =>
        LET M == MatchingRoutes(http_matchers, arg.method, arg.path) IN
        /\ (ret = None) <=> (M = {})
        /\ M # {} =>
              LET first == http_matchers[Least(M)][2] IN
              ret = Some([match_type |-> first.match_type,
                          captures |-> Regex_captures(first.path_regexp, arg.path).caps,
                          body |-> arg.body])

\* two registered matchers with different tags match the request; the first is older
C1_Witness ==
    /\ op = "from_http"
    /\ \E i, j \in MatchingRoutes(http_matchers, arg.method, arg.path) :
          /\ i < j
          /\ http_matchers[i][2].match_type # http_matchers[j][2].match_type
          /\ ret.tag = "Some"
          /\ ret.v.match_type = http_matchers[i][2].match_type

IsPlaceholder(segment) == starts_with(segment, "{") /\ ends_with(segment, "}")

\* the segment-wise reading of a pattern: same number of segments, literal
\* segments equal, placeholder segments non-empty
SegmentsMatch(pattern, path) ==
    LET ps == split(pattern, "/")
        xs == split(path, "/")
    IN /\ Len(ps) = Len(xs)
       /\ \A k \in 1..Len(ps) :
             IF IsPlaceholder(ps[k]) THEN xs[k] # <<>> ELSE ps[k] = xs[k]

SegmentCaptures(pattern, path) ==
    LET ps == split(pattern, "/")
        xs == split(path, "/")
        ks == {k \in 1..Len(ps) : IsPlaceholder(ps[k])}
    IN [n \in {SubSeq(ps[k], 2, Len(ps[k]) - 1) : k \in ks} |->
          xs[CHOOSE k \in ks : SubSeq(ps[k], 2, Len(ps[k]) - 1) = n]]

\* the pattern compiled by the last add agrees with its segment-wise reading on path
AgreesOn(path) ==
    LET r == Regex_captures(http_matchers[Len(http_matchers)][2].path_regexp, path) IN
    /\ r.ok <=> SegmentsMatch(arg.path, path)
    /\ r.ok => r.caps = SegmentCaptures(arg.path, path)

\* C2: a compiled pattern matches a path if and only if both have the same number
\* of segments, every literal segment of the pattern equals the path's segment and
\* every {name} segment meets a non-empty segment, which is the capture name.
C2_MatchesSegmentWise ==
    (op = "add" /\ ~ret.panic) => \A path \in Paths : AgreesOn(path)

HasMetachar(pattern) == \E k \in 1..Len(pattern) : pattern[k] \in {".", "^", "$"}

\* C2, for the patterns whose literal segments hold no regex metacharacter
C2_MatchesSegmentWiseLiteral ==
    (op = "add" /\ ~ret.panic /\ ~HasMetachar(arg.path)) =>
        \A path \in Paths : AgreesOn(path)

\* C2, the routes named: GET /session/abc-123/url is the GET route with
\* sessionId = "abc-123"; PUT on that path and GET on .../title match nothing
C2_NamedRoutes ==
    (op = "from_http" /\ http_matchers = get_builder) =>
        /\ (arg.method = "Get" /\ arg.path = U_url) =>
              ret = Some([match_type |-> "MatchGetCurrentUrl",
                          captures |-> (N_sessionId :> S_abc123), body |-> arg.body])
        /\ (arg.method = "Put" /\ arg.path = U_url) => ret = None
        /\ (arg.method = "Get" /\ arg.path = U_title) => ret = None

HasOpenPlaceholder(pattern) ==
    \E k \in 1..Len(split(pattern, "/")) :
        LET segment == split(pattern, "/")[k] IN
        starts_with(segment, "{") /\ ~ends_with(segment, "}")

\* C10: an add whose pattern has a placeholder without its closing brace panics
\* before anything is appended, the route table is as it was before the call, and
\* no from_http runs on, or reports, the failure.
C10_OpenPlaceholderAborts ==
    [][/\ (op' = "add" /\ HasOpenPlaceholder(arg'.path)) =>
             (ret'.panic /\ panicked' /\ http_matchers' = http_matchers)
       /\ op' = "from_http" =>
             (~panicked' /\ http_matchers' = http_matchers /\ ret'.tag \in {"Some", "None"})
       /\ panicked => panicked']_vars

\* a broken route was registered after a good one, which is still the whole table
C10_Witness ==
    /\ op = "add"
    /\ HasOpenPlaceholder(arg.path)
    /\ panicked
    /\ Len(http_matchers) = 1

====
